---- MODULE Spec2Model ----
(***************************************************************************)
(* Model of the OpenStack database (Trove) resources of the provider:      *)
(* openstack_db_instance, openstack_db_database, openstack_db_user and     *)
(* openstack_db_config_group.  Every resource handler (Create, Read,       *)
(* Delete) is split at its remote calls, so that the remote side can       *)
(* change between two calls of one handler.                                *)
(*                                                                         *)
(* The engine calls one handler at a time (specification Spec).  A remote  *)
(* object is tracked per resource; an object orphaned by a failed Create   *)
(* is forgotten when the next create request of that resource is accepted. *)
(***************************************************************************)
EXTENDS Naturals, Sequences, FiniteSets

VARIABLES
    id,       \* id[r]: the persisted identifier, d.Id()
    remote,   \* remote[r]: status of the remote object of r
    op,       \* op[r]: the handler running for r
    pc,       \* pc[r]: position inside the handler
    hist,     \* hist[r]: results of the probes of the current poll
    elapsed,  \* elapsed[r]: poll ticks slept in the current poll
    pollErr,  \* pollErr[r]: outcome of WaitForState
    ret,      \* ret[r]: what the handler returned
    cause,    \* cause[r]: the call that made the handler return an error
    calls,    \* calls[r]: remote calls issued by the handler and their answers
    name,     \* name[r]: the name attribute in the tracked state of r
    cgFile,   \* which of the two configuration group files is built
    decl,     \* the nested blocks declared for an instance
    req       \* the create request built from decl, NoRequest before

\* What no handler step changes.
aux == <<cgFile, decl, req>>

vars == <<id, remote, op, pc, hist, elapsed, pollErr, ret, cause, calls, name, aux>>

\* Number of poll ticks that fit into the poll timeout.
PollWindow == 3

Res == {"inst", "db", "usr", "cg"}

Kind(r) ==
    CASE r = "inst" -> "Instance"
      [] r \in {"db", "a", "b"} -> "Database"
      [] r = "usr"  -> "User"
      [] r = "cg"   -> "ConfigurationGroup"

\* Statuses the remote side reports for an instance.
InstanceStatus == {"BUILD", "ACTIVE", "SHUTOFF", "ERROR", "error"}

\* Remote status of an object: "absent", or per kind what the API can show.
RemoteStatus(r) ==
    CASE Kind(r) = "Instance"           -> InstanceStatus \cup {"absent"}
      [] Kind(r) = "ConfigurationGroup" -> {"present", "absent"}
      [] OTHER                          -> {"creating", "listed", "absent"}

\* The identifier the create request of r yields: instance.ID, cgroup.ID, or
\* for a Database or User the declared parent instance, d.Get("instance").
RemoteId(r) ==
    CASE Kind(r) = "Instance"           -> "I1"
      [] Kind(r) = "ConfigurationGroup" -> "C1"
      [] OTHER                          -> "I1"

\* The name the configuration of r declares, d.Get("name").
DeclaredName(r) ==
    CASE r = "inst" -> "basic"
      [] r = "db"   -> "app"
      [] r = "usr"  -> "u1"
      [] r = "cg"   -> "cfg"
      [] r = "a"    -> "a"
      [] r = "b"    -> "b"

\* The name of the remote object of r: the one its create request carried.
RemoteName(r) == DeclaredName(r)

\* The two files of the configuration group resource.
CgFiles == {"part_002", "resource_openstack_db_config_group.go"}

\* No create request built yet.
NoRequest == [opts |-> "none", body |-> <<>>]

\* No nested block declared.
NoBlocks == [kind |-> "none", network |-> <<>>, database |-> <<>>, user |-> <<>>]

----------------------------------------------------------------------------
(* The API client.                                                         *)

\* Answers of a get-by-ID: the object, a 404, or another error.
GetAnswers(status) ==
    IF status = "absent" THEN {"404", "err"} ELSE {"ok", "err"}

\* Answers of a create request: accepted or rejected.
CreateAnswers == {"ok", "err"}

\* Answers of a delete-by-ID.
DeleteAnswers(status) ==
    IF status = "absent" THEN {"404", "err"} ELSE {"ok", "err"}

\* Answers of a listing of the children of the parent instance: the listed
\* names, or an error.
ListAnswers(status) ==
    {"err", IF status = "listed" THEN "found" ELSE "missing"}

----------------------------------------------------------------------------
(* Poll specifications and probes.                                         *)

\* Mutant: the pending set and the target set are exchanged.
InstanceCreateConf_Swapped == [Pending |-> {"ACTIVE"}, Target |-> {"BUILD"}]

\* Mutant: the absent state is a target state of the create poll.
InstanceCreateConf_DeletedIsTarget ==
    [Pending |-> {"BUILD"}, Target |-> {"ACTIVE", "deleted"}]

InstanceCreateConf == [Pending |-> {"BUILD"}, Target |-> {"ACTIVE"}]

\* Mutant: SHUTOFF is a target state as well.
InstanceDeleteConf_Overlap ==
    [Pending |-> {"ACTIVE", "SHUTOFF"}, Target |-> {"deleted", "SHUTOFF"}]

InstanceDeleteConf == [Pending |-> {"ACTIVE", "SHUTOFF"}, Target |-> {"deleted"}]

DatabaseCreateConf == [Pending |-> {"BUILD"}, Target |-> {"ACTIVE"}]

DbUserCreateConf == [Pending |-> {"BUILD"}, Target |-> {"ACTIVE"}]

\* Mutant: the target state is written in the wrong case.
DbConfigGroupCreateConf_LowerCase == [Pending |-> {"BUILD"}, Target |-> {"active"}]

DbConfigGroupCreateConf == [Pending |-> {"BUILD"}, Target |-> {"ACTIVE"}]

\* Mutant: the target is not written as the probe reports it.
DbConfigGroupDeleteConf_LowerCase == [Pending |-> {"ACTIVE", "SHUTOFF"}, Target |-> {"deleted"}]

DbConfigGroupDeleteConf == [Pending |-> {"ACTIVE", "SHUTOFF"}, Target |-> {"DELETED"}]

\* resource_openstack_db_config_group.go
DbConfigGroupDeleteConfOld == [Pending |-> {"ACTIVE", "SHUTOFF"}, Target |-> {"deleted"}]

Result(state, err) == [state |-> state, err |-> err]

\* Mutant: an instance in the error status is reported as still building.
InstanceStateRefreshFunc_ErrorPending(status, ans) ==
    IF ans = "404" THEN Result("deleted", "nil")
    ELSE IF ans = "err" THEN Result("", "get")
    ELSE IF status = "error" THEN Result("BUILD", "nil")
    ELSE Result(status, "nil")

InstanceStateRefreshFunc(status, ans) ==
    IF ans = "404" THEN Result("deleted", "nil")
    ELSE IF ans = "err" THEN Result("", "get")
    ELSE IF status = "error" THEN Result(status, "status")
    ELSE Result(status, "nil")

\* Mutant: the probe of part_002 reports the absent state in lower case.
DbConfigGroupStateRefreshFunc_LowerCase(status, ans) ==
    IF ans = "404" THEN Result("deleted", "nil")
    ELSE IF ans = "err" THEN Result("", "get")
    ELSE Result("ACTIVE", "nil")

DbConfigGroupStateRefreshFunc(status, ans) ==
    IF ans = "404" THEN Result("DELETED", "nil")
    ELSE IF ans = "err" THEN Result("", "get")
    ELSE Result("ACTIVE", "nil")

\* Mutant: the probe reports a group that was found as being built.
DbConfigGroupStateRefreshFuncOld_ReportsBuild(status, ans) ==
    IF ans = "404" THEN Result("deleted", "nil")
    ELSE IF ans = "err" THEN Result("", "get")
    ELSE Result("BUILD", "nil")

\* resource_openstack_db_config_group.go
DbConfigGroupStateRefreshFuncOld(status, ans) ==
    IF ans = "404" THEN Result("deleted", "nil")
    ELSE IF ans = "err" THEN Result("", "get")
    ELSE Result("ACTIVE", "nil")

DatabaseStateRefreshFunc(status, ans) ==
    IF ans = "err" THEN Result("", "list")
    ELSE IF ans = "found" THEN Result("ACTIVE", "nil")
    ELSE Result("", "childNotFound")

\* Mutant: a user that is not listed is reported as ACTIVE.
DbUserStateRefreshFunc_MissingIsActive(status, ans) ==
    IF ans = "err" THEN Result("", "list")
    ELSE Result("ACTIVE", "nil")

DbUserStateRefreshFunc(status, ans) ==
    IF ans = "err" THEN Result("", "list")
    ELSE IF ans = "found" THEN Result("ACTIVE", "nil")
    ELSE Result("", "childNotFound")

\* The poll specification the running handler of r built.
Conf(r) ==
    CASE Kind(r) = "Instance" /\ op[r] = "Create"           -> InstanceCreateConf
      [] Kind(r) = "Instance" /\ op[r] = "Delete"           -> InstanceDeleteConf
      [] Kind(r) = "Database"                               -> DatabaseCreateConf
      [] Kind(r) = "User"                                   -> DbUserCreateConf
      [] Kind(r) = "ConfigurationGroup" /\ op[r] = "Create" -> DbConfigGroupCreateConf
      [] Kind(r) = "ConfigurationGroup" /\ cgFile = "part_002" -> DbConfigGroupDeleteConf
      [] OTHER                                              -> DbConfigGroupDeleteConfOld

\* Mutant: the probe of a Database or User looks for any object of its kind
\* in the listing, not for the one of its own name.
ProbeAnswers_AnyName(r) ==
    IF Kind(r) \in {"Instance", "ConfigurationGroup"}
    THEN GetAnswers(remote[r])
    ELSE UNION {ListAnswers(remote[q]) : q \in {x \in DOMAIN remote : Kind(x) = Kind(r)}}

\* The answers the remote call of the probe of r can get.
ProbeAnswers(r) ==
    IF Kind(r) \in {"Instance", "ConfigurationGroup"}
    THEN GetAnswers(remote[r]) ELSE ListAnswers(remote[r])

\* Mutant: the probe issues a delete request.
ProbeCall_Delete(r) == "delete"

\* Mutant: every probe lists the children of the instance.
ProbeCall_ListsChildren(r) == "list"

\* The remote call the probe of r issues.
ProbeCall(r) ==
    IF Kind(r) \in {"Instance", "ConfigurationGroup"} THEN "get" ELSE "list"

\* The probe of r.
Refresh(r, ans) ==
    CASE Kind(r) = "Instance"           -> InstanceStateRefreshFunc(remote[r], ans)
      [] Kind(r) = "ConfigurationGroup" /\ cgFile = "part_002"
                                        -> DbConfigGroupStateRefreshFunc(remote[r], ans)
      [] Kind(r) = "ConfigurationGroup" -> DbConfigGroupStateRefreshFuncOld(remote[r], ans)
      [] Kind(r) = "Database"           -> DatabaseStateRefreshFunc(remote[r], ans)
      [] OTHER                          -> DbUserStateRefreshFunc(remote[r], ans)

----------------------------------------------------------------------------
(* WaitForState.                                                           *)

\* What one probe result means for the poll: "nil" ends it with success,
\* "pending" keeps it going, the others end it with an error.
Classify(conf, res) ==
    IF res.err # "nil" THEN "probe"
    ELSE IF res.state \in conf.Target THEN "nil"
    ELSE IF res.state \in conf.Pending THEN "pending"
    ELSE "unexpected"

\* Mutant: the handler goes on after a poll that timed out.
PollFailed_IgnoreTimeout(e) == e \notin {"nil", "timeout"}

\* if err != nil after WaitForState
PollFailed(e) == e # "nil"

TypeOK ==
    /\ id \in [Res -> {"", "I1", "C1"}]
    /\ \A r \in Res : remote[r] \in RemoteStatus(r)
    /\ op \in [Res -> {"none", "Create", "Read", "Delete"}]
    /\ pc \in [Res -> {"idle", "request", "poll", "polled", "listed", "done"}]
    /\ \A r \in Res : Len(hist[r]) <= PollWindow
    /\ elapsed \in [Res -> 0..PollWindow]
    /\ pollErr \in [Res -> {"none", "nil", "probe", "unexpected", "timeout"}]
    /\ ret \in [Res -> {"none", "nil", "error", "panic"}]
    /\ cause \in [Res -> {"none", "create", "poll", "read", "delete", "list"}]
    /\ \A r \in Res : name[r] \in {"", DeclaredName(r)}
    /\ cgFile \in CgFiles

Init ==
    /\ id = [r \in Res |-> ""]
    /\ remote = [r \in Res |-> "absent"]
    /\ op = [r \in Res |-> "none"]
    /\ pc = [r \in Res |-> "idle"]
    /\ hist = [r \in Res |-> <<>>]
    /\ elapsed = [r \in Res |-> 0]
    /\ pollErr = [r \in Res |-> "none"]
    /\ ret = [r \in Res |-> "none"]
    /\ cause = [r \in Res |-> "none"]
    /\ calls = [r \in Res |-> <<>>]
    /\ name = [r \in Res |-> ""]
    /\ cgFile \in CgFiles
    /\ decl = NoBlocks
    /\ req = NoRequest

----------------------------------------------------------------------------
(* Bookkeeping shared by the handlers.                                     *)

\* The handler of r issues the remote call c, which is answered a.
Call(r, c, a) == calls' = [calls EXCEPT ![r] = Append(@, [call |-> c, ans |-> a])]

\* The handler of r returns v; c names the call an error comes from.
Returns(r, v, c) ==
    /\ ret' = [ret EXCEPT ![r] = v]
    /\ cause' = [cause EXCEPT ![r] = IF v = "nil" THEN "none" ELSE c]
    /\ pc' = [pc EXCEPT ![r] = "done"]

Goto(r, l) ==
    /\ pc' = [pc EXCEPT ![r] = l]
    /\ UNCHANGED <<ret, cause>>

Running(r, k, o, l) == Kind(r) = k /\ op[r] = o /\ pc[r] = l

----------------------------------------------------------------------------
(* The engine and the remote side.                                         *)

\* The engine calls Create on a resource without identifier, Read and Delete
\* on a resource with one, and one handler at a time.  The resource data of
\* a Create carries the declared name.
Start(r, o) ==
    /\ \A q \in Res : pc[q] = "idle"
    /\ IF o = "Create" THEN id[r] = "" ELSE id[r] # ""
    /\ op' = [op EXCEPT ![r] = o]
    /\ pc' = [pc EXCEPT ![r] = "request"]
    /\ name' = [name EXCEPT ![r] = IF o = "Create" THEN DeclaredName(r) ELSE @]
    /\ UNCHANGED <<aux, id, remote, hist, elapsed, pollErr, ret, cause, calls>>

\* The engine takes the result of the handler; it drops the tracked state of
\* a resource without identifier.
Return(r) ==
    /\ pc[r] = "done"
    /\ op' = [op EXCEPT ![r] = "none"]
    /\ pc' = [pc EXCEPT ![r] = "idle"]
    /\ hist' = [hist EXCEPT ![r] = <<>>]
    /\ elapsed' = [elapsed EXCEPT ![r] = 0]
    /\ pollErr' = [pollErr EXCEPT ![r] = "none"]
    /\ ret' = [ret EXCEPT ![r] = "none"]
    /\ cause' = [cause EXCEPT ![r] = "none"]
    /\ calls' = [calls EXCEPT ![r] = <<>>]
    /\ name' = [name EXCEPT ![r] = IF id[r] = "" THEN "" ELSE @]
    /\ UNCHANGED <<aux, id, remote>>

\* The remote side changes the status of an existing object, or drops it.
Env(r) ==
    /\ remote[r] # "absent"
    /\ \E s \in RemoteStatus(r) \ {remote[r], "creating"} :
          remote' = [remote EXCEPT ![r] = s]
    /\ UNCHANGED <<aux, name, id, op, pc, hist, elapsed, pollErr, ret, cause, calls>>

----------------------------------------------------------------------------
(* WaitForState.                                                           *)

\* One probe of the poll of r.
WaitForState(r) ==
    /\ pc[r] = "poll"
    /\ elapsed[r] < PollWindow
    /\ \E ans \in ProbeAnswers(r) :
          LET res == Refresh(r, ans)
              c   == Classify(Conf(r), res)
          IN  /\ hist' = [hist EXCEPT ![r] = Append(@, res)]
              /\ Call(r, ProbeCall(r), ans)
              /\ elapsed' = [elapsed EXCEPT ![r] = IF c = "pending" THEN @ + 1 ELSE @]
              /\ pollErr' = [pollErr EXCEPT ![r] = IF c = "pending" THEN "none" ELSE c]
              /\ pc' = [pc EXCEPT ![r] = IF c = "pending" THEN "poll" ELSE "polled"]
    /\ UNCHANGED <<aux, name, id, remote, op, ret, cause>>

\* The timeout of the poll of r elapses.
WaitForStateTimeout(r) ==
    /\ pc[r] = "poll"
    /\ elapsed[r] >= PollWindow
    /\ pollErr' = [pollErr EXCEPT ![r] = "timeout"]
    /\ pc' = [pc EXCEPT ![r] = "polled"]
    /\ UNCHANGED <<aux, name, id, remote, op, hist, elapsed, ret, cause, calls>>

----------------------------------------------------------------------------
(* Read.                                                                   *)

Outcome(i, v) == [id |-> i, ret |-> v]

\* CheckDeleted(d, err, msg) for the answer ans of a failed get.
CheckDeleted(curId, ans) ==
    IF ans = "404" THEN Outcome("", "nil") ELSE Outcome(curId, "error")

\* Mutant: Read returns every get error without calling CheckDeleted.
resourceDatabaseInstanceRead_NoCheckDeleted(curId, ans) ==
    IF ans # "ok" THEN Outcome(curId, "error") ELSE Outcome(curId, "nil")

resourceDatabaseInstanceRead(curId, ans) ==
    IF ans # "ok" THEN CheckDeleted(curId, ans) ELSE Outcome(curId, "nil")

resourceDbConfigGroupRead(curId, ans) ==
    IF ans # "ok" THEN CheckDeleted(curId, ans) ELSE Outcome(curId, "nil")

resourceDatabaseRead(curId, ans) ==
    IF ans = "err" THEN Outcome(curId, "error") ELSE Outcome(curId, "nil")

resourceDbUserRead(curId, ans) ==
    IF ans = "err" THEN Outcome(curId, "error") ELSE Outcome(curId, "nil")

\* Read of r with the identifier curId: one remote call, then the outcome;
\* the name of an object that was found is stored with d.Set("name", ...).
ReadOf(r, curId) ==
    IF Kind(r) \in {"Instance", "ConfigurationGroup"}
    THEN \E ans \in GetAnswers(remote[r]) :
            LET o == IF Kind(r) = "Instance"
                     THEN resourceDatabaseInstanceRead(curId, ans)
                     ELSE resourceDbConfigGroupRead(curId, ans)
            IN  /\ Call(r, "get", ans)
                /\ id' = [id EXCEPT ![r] = o.id]
                /\ name' = [name EXCEPT ![r] = IF ans = "ok" THEN RemoteName(r) ELSE @]
                /\ Returns(r, o.ret, "read")
    ELSE \E ans \in ListAnswers(remote[r]) :
            LET o == IF Kind(r) = "Database"
                     THEN resourceDatabaseRead(curId, ans)
                     ELSE resourceDbUserRead(curId, ans)
            IN  /\ Call(r, "list", ans)
                /\ id' = [id EXCEPT ![r] = o.id]
                /\ name' = [name EXCEPT ![r] = IF ans = "found" THEN RemoteName(r) ELSE @]
                /\ Returns(r, o.ret, "read")

\* The engine refreshes r.
Read(r) ==
    /\ op[r] = "Read" /\ pc[r] = "request"
    /\ ReadOf(r, id[r])
    /\ UNCHANGED <<aux, remote, op, hist, elapsed, pollErr>>

----------------------------------------------------------------------------
(* Create.                                                                 *)

\* Mutant: the identifier is not stored before the Read.
CreateFinish_NoSetId(r) ==
    /\ pc[r] = "polled"
    /\ IF PollFailed(pollErr[r])
       THEN /\ Returns(r, "error", "poll")
            /\ UNCHANGED <<id, calls, name>>
       ELSE ReadOf(r, id[r])
    /\ UNCHANGED <<aux, remote, op, hist, elapsed, pollErr>>

\* Mutant: the identifier is stored before the error of the poll is checked.
CreateFinish_StoreFirst(r) ==
    /\ pc[r] = "polled"
    /\ IF PollFailed(pollErr[r])
       THEN /\ Returns(r, "error", "poll")
            /\ id' = [id EXCEPT ![r] = RemoteId(r)]
            /\ UNCHANGED <<calls, name>>
       ELSE ReadOf(r, RemoteId(r))
    /\ UNCHANGED <<aux, remote, op, hist, elapsed, pollErr>>

\* Mutant: Create removes the object it created when its poll has failed.
CreateFinish_CleansUp(r) ==
    /\ pc[r] = "polled"
    /\ IF PollFailed(pollErr[r])
       THEN /\ Returns(r, "error", "poll")
            /\ Call(r, "delete", "ok")
            /\ remote' = [remote EXCEPT ![r] = "absent"]
            /\ UNCHANGED <<id, name>>
       ELSE ReadOf(r, RemoteId(r)) /\ UNCHANGED remote
    /\ UNCHANGED <<aux, op, hist, elapsed, pollErr>>

\* After WaitForState of a Create: return its error, or store the identifier
\* and read the resource.
CreateFinish(r) ==
    /\ pc[r] = "polled"
    /\ IF PollFailed(pollErr[r])
       THEN /\ Returns(r, "error", "poll")
            /\ UNCHANGED <<id, calls, name>>
       ELSE ReadOf(r, RemoteId(r))
    /\ UNCHANGED <<aux, remote, op, hist, elapsed, pollErr>>

\* instances.Create, and the return when it is rejected.
InstanceCreateRequest(r) ==
    /\ Running(r, "Instance", "Create", "request")
    /\ \E ans \in CreateAnswers :
          /\ Call(r, "create", ans)
          /\ IF ans = "ok"
             THEN /\ remote' = [remote EXCEPT ![r] = "BUILD"]
                  /\ Goto(r, "poll")
             ELSE /\ Returns(r, "error", "create")
                  /\ UNCHANGED remote
    /\ UNCHANGED <<aux, name, id, op, hist, elapsed, pollErr>>

InstanceCreateFinish(r) ==
    /\ Kind(r) = "Instance" /\ op[r] = "Create"
    /\ CreateFinish(r)

\* configurations.Create, and the return when it is rejected.
DbConfigGroupCreateRequest(r) ==
    /\ Running(r, "ConfigurationGroup", "Create", "request")
    /\ \E ans \in CreateAnswers :
          /\ Call(r, "create", ans)
          /\ IF ans = "ok"
             THEN /\ remote' = [remote EXCEPT ![r] = "present"]
                  /\ Goto(r, "poll")
             ELSE /\ Returns(r, "error", "create")
                  /\ UNCHANGED remote
    /\ UNCHANGED <<aux, name, id, op, hist, elapsed, pollErr>>

DbConfigGroupCreateFinish(r) ==
    /\ Kind(r) = "ConfigurationGroup" /\ op[r] = "Create"
    /\ CreateFinish(r)

\* databases.Create; its result is dropped.
DatabaseCreateRequest(r) ==
    /\ Running(r, "Database", "Create", "request")
    /\ \E ans \in CreateAnswers :
          /\ Call(r, "create", ans)
          /\ remote' = [remote EXCEPT ![r] =
                           IF ans = "ok" /\ @ = "absent" THEN "creating" ELSE @]
    /\ Goto(r, "poll")
    /\ UNCHANGED <<aux, name, id, op, hist, elapsed, pollErr>>

DatabaseCreateFinish(r) ==
    /\ Kind(r) = "Database" /\ op[r] = "Create"
    /\ CreateFinish(r)

\* users.Create; its result is dropped.
DbUserCreateRequest(r) ==
    /\ Running(r, "User", "Create", "request")
    /\ \E ans \in CreateAnswers :
          /\ Call(r, "create", ans)
          /\ remote' = [remote EXCEPT ![r] =
                           IF ans = "ok" /\ @ = "absent" THEN "creating" ELSE @]
    /\ Goto(r, "poll")
    /\ UNCHANGED <<aux, name, id, op, hist, elapsed, pollErr>>

DbUserCreateFinish(r) ==
    /\ Kind(r) = "User" /\ op[r] = "Create"
    /\ CreateFinish(r)

----------------------------------------------------------------------------
(* Delete.                                                                 *)

\* Mutant: after a failed poll the Delete handler does not return.
DeleteFinish_NoReturnOnError(r) ==
    /\ pc[r] = "polled"
    /\ ~PollFailed(pollErr[r])
    /\ id' = [id EXCEPT ![r] = ""]
    /\ Returns(r, "nil", "none")
    /\ UNCHANGED <<aux, name, remote, op, hist, elapsed, pollErr, calls>>

\* After WaitForState of a Delete: return its error, or clear the identifier.
DeleteFinish(r) ==
    /\ pc[r] = "polled"
    /\ IF PollFailed(pollErr[r])
       THEN /\ Returns(r, "error", "poll")
            /\ UNCHANGED id
       ELSE /\ id' = [id EXCEPT ![r] = ""]
            /\ Returns(r, "nil", "none")
    /\ UNCHANGED <<aux, name, remote, op, hist, elapsed, pollErr, calls>>

\* instances.Delete, and the return when it fails.  The remote side removes
\* the object later, on its own.
\* Mutant: Delete polls whatever the answer to its delete request.
InstanceDeleteRequest_PollAnyway(r) ==
    /\ Running(r, "Instance", "Delete", "request")
    /\ \E ans \in DeleteAnswers(remote[r]) : Call(r, "delete", ans)
    /\ Goto(r, "poll")
    /\ UNCHANGED <<aux, name, id, remote, op, hist, elapsed, pollErr>>

InstanceDeleteRequest(r) ==
    /\ Running(r, "Instance", "Delete", "request")
    /\ \E ans \in DeleteAnswers(remote[r]) :
          /\ Call(r, "delete", ans)
          /\ IF ans = "ok" THEN Goto(r, "poll") ELSE Returns(r, "error", "delete")
    /\ UNCHANGED <<aux, name, id, remote, op, hist, elapsed, pollErr>>

InstanceDeleteFinish(r) ==
    /\ Kind(r) = "Instance" /\ op[r] = "Delete"
    /\ DeleteFinish(r)

\* configurations.Delete, and the return when it fails.
DbConfigGroupDeleteRequest(r) ==
    /\ Running(r, "ConfigurationGroup", "Delete", "request")
    /\ \E ans \in DeleteAnswers(remote[r]) :
          /\ Call(r, "delete", ans)
          /\ IF ans = "ok" THEN Goto(r, "poll") ELSE Returns(r, "error", "delete")
    /\ UNCHANGED <<aux, name, id, remote, op, hist, elapsed, pollErr>>

DbConfigGroupDeleteFinish(r) ==
    /\ Kind(r) = "ConfigurationGroup" /\ op[r] = "Delete"
    /\ DeleteFinish(r)

\* The listing at the start of the Delete of a Database or User.  The error
\* of List(...).AllPages() is overwritten; the extraction of the missing
\* pages fails or panics.
ChildDeleteList(r) ==
    /\ pc[r] = "request"
    /\ \E ans \in ListAnswers(remote[r]) :
          /\ Call(r, "list", ans)
          /\ IF ans = "err"
             THEN \E v \in {"error", "panic"} : Returns(r, v, "list")
             ELSE Goto(r, "listed")
    /\ UNCHANGED <<aux, name, id, remote, op, hist, elapsed, pollErr>>

\* Mutant: Delete returns the failure of its delete request.
ChildDeleteRequest_ChecksResult(r) ==
    /\ pc[r] = "listed"
    /\ \E ans \in DeleteAnswers(remote[r]) :
          /\ Call(r, "delete", ans)
          /\ remote' = [remote EXCEPT ![r] = IF ans = "ok" THEN "absent" ELSE @]
          /\ id' = [id EXCEPT ![r] = IF ans = "ok" THEN "" ELSE @]
          /\ IF ans = "ok" THEN Returns(r, "nil", "none")
                           ELSE Returns(r, "error", "delete")
    /\ UNCHANGED <<aux, name, op, hist, elapsed, pollErr>>

\* The delete request of a Database or User, whose result is dropped, and
\* d.SetId("").
ChildDeleteRequest(r) ==
    /\ pc[r] = "listed"
    /\ \E ans \in DeleteAnswers(remote[r]) :
          /\ Call(r, "delete", ans)
          /\ remote' = [remote EXCEPT ![r] = IF ans = "ok" THEN "absent" ELSE @]
    /\ id' = [id EXCEPT ![r] = ""]
    /\ Returns(r, "nil", "none")
    /\ UNCHANGED <<aux, name, op, hist, elapsed, pollErr>>

DatabaseDeleteList(r) ==
    /\ Kind(r) = "Database" /\ op[r] = "Delete"
    /\ ChildDeleteList(r)

DatabaseDeleteRequest(r) ==
    /\ Kind(r) = "Database" /\ op[r] = "Delete"
    /\ ChildDeleteRequest(r)

DbUserDeleteList(r) ==
    /\ Kind(r) = "User" /\ op[r] = "Delete"
    /\ ChildDeleteList(r)

DbUserDeleteRequest(r) ==
    /\ Kind(r) = "User" /\ op[r] = "Delete"
    /\ ChildDeleteRequest(r)

----------------------------------------------------------------------------

Next ==
    \E r \in Res :
        \/ \E o \in {"Create", "Read", "Delete"} : Start(r, o)
        \/ Return(r)
        \/ Env(r)
        \/ WaitForState(r)
        \/ WaitForStateTimeout(r)
        \/ Read(r)
        \/ InstanceCreateRequest(r)
        \/ InstanceCreateFinish(r)
        \/ DbConfigGroupCreateRequest(r)
        \/ DbConfigGroupCreateFinish(r)
        \/ DatabaseCreateRequest(r)
        \/ DatabaseCreateFinish(r)
        \/ DbUserCreateRequest(r)
        \/ DbUserCreateFinish(r)
        \/ InstanceDeleteRequest(r)
        \/ InstanceDeleteFinish(r)
        \/ DbConfigGroupDeleteRequest(r)
        \/ DbConfigGroupDeleteFinish(r)
        \/ DatabaseDeleteList(r)
        \/ DatabaseDeleteRequest(r)
        \/ DbUserDeleteList(r)
        \/ DbUserDeleteRequest(r)

Spec == Init /\ [][Next]_vars

\* A step of the handler that runs on r.
HandlerStep(r) ==
    \/ WaitForState(r)
    \/ WaitForStateTimeout(r)
    \/ Read(r)
    \/ InstanceCreateRequest(r)
    \/ InstanceCreateFinish(r)
    \/ DbConfigGroupCreateRequest(r)
    \/ DbConfigGroupCreateFinish(r)
    \/ DatabaseCreateRequest(r)
    \/ DatabaseCreateFinish(r)
    \/ DbUserCreateRequest(r)
    \/ DbUserCreateFinish(r)
    \/ InstanceDeleteRequest(r)
    \/ InstanceDeleteFinish(r)
    \/ DbConfigGroupDeleteRequest(r)
    \/ DbConfigGroupDeleteFinish(r)
    \/ DatabaseDeleteList(r)
    \/ DatabaseDeleteRequest(r)
    \/ DbUserDeleteList(r)
    \/ DbUserDeleteRequest(r)

\* No other resource than r is tracked, exists on the remote side or has a
\* handler running.
Solo(r) ==
    \A q \in Res \ {r} : id[q] = "" /\ remote[q] = "absent" /\ pc[q] = "idle"

\* The engine manages one resource at a time: it turns to another one only
\* when the one before is neither tracked nor left on the remote side.
NextSolo ==
    \E r \in Res :
        /\ Solo(r)
        /\ \/ \E o \in {"Create", "Read", "Delete"} : Start(r, o)
           \/ Return(r)
           \/ Env(r)
           \/ HandlerStep(r)

SpecSolo == Init /\ [][NextSolo]_vars

\* A handler that has been called keeps running: its goroutine is scheduled,
\* its remote calls are answered and the clock of its poll advances.
FairSolo == SpecSolo /\ \A r \in Res : WF_vars(HandlerStep(r))

----------------------------------------------------------------------------
(* The create requests built from the declared configuration.              *)

\* Largest number of blocks declared in one list.
MaxBlocks == 2

SeqsUpTo(S, n) == UNION {[1..k -> S] : k \in 0..n}

\* Declared network, database and user blocks of an instance.
NetworkBlocks == {[uuid |-> "n1", port |-> ""], [uuid |-> "", port |-> "p2"]}

DatabaseBlocks == {[name |-> "d1", charset |-> "utf8"], [name |-> "d2", charset |-> ""]}

UserBlocks == {[name |-> "u1", databases |-> <<>>],
               [name |-> "u2", databases |-> <<"d1", "d2">>]}

InstanceDecls ==
    [kind : {"Instance"},
     network : SeqsUpTo(NetworkBlocks, MaxBlocks),
     database : SeqsUpTo(DatabaseBlocks, MaxBlocks),
     user : SeqsUpTo(UserBlocks, MaxBlocks)]

\* Declared configuration values, as the characters of the string.
BigValue ==
    <<"1", "8", "4", "4", "6", "7", "4", "4", "0", "7",
      "3", "7", "0", "9", "5", "5", "1", "6", "1", "5">>

ConfigValues ==
    {<<"5">>, <<"-", "5">>, <<"+", "5">>, <<"0", "5">>, <<"-", "0">>,
     <<"5", "a">>, <<"l", "a", "t", "i", "n", "1">>, <<>>, BigValue}

ConfigBlocks == [name : {"k1", "k2"}, value : ConfigValues]

DbConfigGroupDecls ==
    [kind : {"ConfigurationGroup"},
     configuration : SeqsUpTo(ConfigBlocks, MaxBlocks)]

\* getDatabases(v)
getDatabases(v) == [i \in DOMAIN v |-> [Name |-> v[i]]]

\* d.GetOk of a list and the use of its element 0: the first block, if any.
FirstBlock(list) == IF list = <<>> THEN <<>> ELSE <<list[1]>>

\* The networks, databases and users of the createOpts of an instance.
InstanceCreateOpts(d) ==
    [Networks  |-> [i \in DOMAIN FirstBlock(d.network) |->
                      [UUID |-> d.network[i].uuid, Port |-> d.network[i].port]],
     Databases |-> [i \in DOMAIN FirstBlock(d.database) |->
                      [Name |-> d.database[i].name, CharSet |-> d.database[i].charset]],
     Users     |-> [i \in DOMAIN FirstBlock(d.user) |->
                      [Name |-> d.user[i].name,
                       Databases |-> getDatabases(d.user[i].databases)]]]

Digit == {"0", "1", "2", "3", "4", "5", "6", "7", "8", "9"}

DigitValue(c) ==
    CASE c = "0" -> 0 [] c = "1" -> 1 [] c = "2" -> 2 [] c = "3" -> 3
      [] c = "4" -> 4 [] c = "5" -> 5 [] c = "6" -> 6 [] c = "7" -> 7
      [] c = "8" -> 8 [] c = "9" -> 9

\* The digits of 1<<63 - 1, the largest int.
MaxInt ==
    <<"9", "2", "2", "3", "3", "7", "2", "0", "3", "6",
      "8", "5", "4", "7", "7", "5", "8", "0", "7">>

\* The digits of 1<<63, the magnitude of the smallest int.
MinIntMagnitude ==
    <<"9", "2", "2", "3", "3", "7", "2", "0", "3", "6",
      "8", "5", "4", "7", "7", "5", "8", "0", "8">>

RECURSIVE StripZeros(_)
StripZeros(s) ==
    IF Len(s) > 1 /\ s[1] = "0" THEN StripZeros(Tail(s)) ELSE s

\* a <= b for two numbers without leading zeros.
RECURSIVE DigitsLeq(_, _)
DigitsLeq(a, b) ==
    IF Len(a) # Len(b) THEN Len(a) < Len(b)
    ELSE IF a = <<>> THEN TRUE
    ELSE IF a[1] # b[1] THEN DigitValue(a[1]) < DigitValue(b[1])
    ELSE DigitsLeq(Tail(a), Tail(b))

\* strconv.Atoi(s): an optional sign and decimal digits that fit an int.  The
\* integer is given by its sign and its digits without leading zeros.
Atoi(s) ==
    LET signed == s # <<>> /\ s[1] \in {"+", "-"}
        body   == IF signed THEN Tail(s) ELSE s
        neg    == signed /\ s[1] = "-"
        m      == StripZeros(body)
    IN  IF body = <<>> \/ \E i \in DOMAIN body : body[i] \notin Digit
        THEN [ok |-> FALSE]
        ELSE IF ~DigitsLeq(m, IF neg THEN MinIntMagnitude ELSE MaxInt)
        THEN [ok |-> FALSE]
        ELSE [ok |-> TRUE, neg |-> neg /\ m # <<"0">>, digits |-> m]

StringValue(s) == [type |-> "string", val |-> s]

IntValue(neg, digits) == [type |-> "int", neg |-> neg, digits |-> digits]

\* The value transmitted for a declared value: the int if Atoi accepts it.
Coerce(value) ==
    LET a == Atoi(value)
    IN  IF a.ok THEN IntValue(a.neg, a.digits) ELSE StringValue(value)

\* values[name] = value
Put(values, k, v) ==
    [x \in DOMAIN values \cup {k} |-> IF x = k THEN v ELSE values[x]]

\* The loop over the declared configuration blocks of part_002.
RECURSIVE ValuesLoop(_, _)
ValuesLoop(blocks, values) ==
    IF blocks = <<>> THEN values
    ELSE ValuesLoop(Tail(blocks),
                    Put(values, blocks[1].name, Coerce(blocks[1].value)))

\* The values of the createOpts of a configuration group in part_002.
DbConfigGroupValues(d) == ValuesLoop(d.configuration, <<>>)

\* The values of the createOpts of a configuration group in
\* resource_openstack_db_config_group.go: block 0, its value as declared.
DbConfigGroupValuesOld(d) ==
    IF d.configuration = <<>> THEN <<>>
    ELSE Put(<<>>, d.configuration[1].name, StringValue(d.configuration[1].value))

\* resourceDatabaseInstanceCreate builds its createOpts.
BuildInstanceCreateOpts ==
    /\ decl.kind = "Instance" /\ req = NoRequest
    /\ req' = [opts |-> "Instance", body |-> InstanceCreateOpts(decl)]
    /\ UNCHANGED <<id, remote, op, pc, hist, elapsed, pollErr, ret, cause,
                   calls, name, cgFile, decl>>

\* resourceDbConfigGroupCreate builds its createOpts.
BuildDbConfigGroupCreateOpts ==
    /\ decl.kind = "ConfigurationGroup" /\ req = NoRequest
    /\ req' = [opts |-> "ConfigurationGroup",
               body |-> [Values |-> IF cgFile = "part_002"
                                    THEN DbConfigGroupValues(decl)
                                    ELSE DbConfigGroupValuesOld(decl)]]
    /\ UNCHANGED <<id, remote, op, pc, hist, elapsed, pollErr, ret, cause,
                   calls, name, cgFile, decl>>

InitBuild ==
    /\ id = [r \in Res |-> ""]
    /\ remote = [r \in Res |-> "absent"]
    /\ op = [r \in Res |-> "none"]
    /\ pc = [r \in Res |-> "idle"]
    /\ hist = [r \in Res |-> <<>>]
    /\ elapsed = [r \in Res |-> 0]
    /\ pollErr = [r \in Res |-> "none"]
    /\ ret = [r \in Res |-> "none"]
    /\ cause = [r \in Res |-> "none"]
    /\ calls = [r \in Res |-> <<>>]
    /\ name = [r \in Res |-> ""]
    /\ cgFile \in CgFiles
    /\ decl \in InstanceDecls \cup DbConfigGroupDecls
    /\ req = NoRequest

NextBuild == BuildInstanceCreateOpts \/ BuildDbConfigGroupCreateOpts

\* The building of the create requests, for every declared configuration.
SpecBuild == InitBuild /\ [][NextBuild]_vars

----------------------------------------------------------------------------
(* Concurrent reconciliation of two databases of one instance.             *)

\* The databases "a" and "b" declared on the instance I1.
ConcRes == {"a", "b"}

\* The engine calls a handler on r while the handler of the other resource
\* may be running.
StartConc(r, o) ==
    /\ pc[r] = "idle"
    /\ IF o = "Create" THEN id[r] = "" ELSE id[r] # ""
    /\ op' = [op EXCEPT ![r] = o]
    /\ pc' = [pc EXCEPT ![r] = "request"]
    /\ name' = [name EXCEPT ![r] = IF o = "Create" THEN DeclaredName(r) ELSE @]
    /\ UNCHANGED <<aux, id, remote, hist, elapsed, pollErr, ret, cause, calls>>

InitConc ==
    /\ id = [r \in ConcRes |-> ""]
    /\ remote = [r \in ConcRes |-> "absent"]
    /\ op = [r \in ConcRes |-> "none"]
    /\ pc = [r \in ConcRes |-> "idle"]
    /\ hist = [r \in ConcRes |-> <<>>]
    /\ elapsed = [r \in ConcRes |-> 0]
    /\ pollErr = [r \in ConcRes |-> "none"]
    /\ ret = [r \in ConcRes |-> "none"]
    /\ cause = [r \in ConcRes |-> "none"]
    /\ calls = [r \in ConcRes |-> <<>>]
    /\ name = [r \in ConcRes |-> ""]
    /\ cgFile = "part_002"
    /\ decl = NoBlocks
    /\ req = NoRequest

NextConc ==
    \E r \in ConcRes :
        \/ \E o \in {"Create", "Read", "Delete"} : StartConc(r, o)
        \/ Return(r)
        \/ Env(r)
        \/ WaitForState(r)
        \/ Read(r)
        \/ DatabaseCreateRequest(r)
        \/ DatabaseCreateFinish(r)
        \/ DatabaseDeleteList(r)
        \/ DatabaseDeleteRequest(r)

\* The handlers of the two databases, their steps interleaved in any order.
\* The probe of a database reports no pending state, so its poll ends on the
\* first probe and never by timeout.
SpecConc == InitConc /\ [][NextConc]_vars

----------------------------------------------------------------------------
(* An instance declared with a database block and a user block.            *)

\* The declared instance: the database "app" and the user "u1" are bundled.
BundledDecl ==
    [kind |-> "Instance",
     network |-> <<>>,
     database |-> <<[name |-> "app", charset |-> "utf8"]>>,
     user |-> <<[name |-> "u1", databases |-> <<"app">>]>>]

\* The bundled children: "db" stands for the database "app" and "usr" for
\* the user "u1" of the instance; no handler runs on them.
Bundled == {"db", "usr"}

\* The remote side creates a child that the create request of the instance
\* carried, at some time after the request, or never.
EnvBundled(c) ==
    /\ req.opts = "Instance"
    /\ \/ c = "db" /\ \E i \in DOMAIN req.body.Databases :
                          req.body.Databases[i].Name = DeclaredName(c)
       \/ c = "usr" /\ \E i \in DOMAIN req.body.Users :
                          req.body.Users[i].Name = DeclaredName(c)
    /\ remote["inst"] # "absent" /\ remote[c] = "absent"
    /\ \E i \in DOMAIN calls["inst"] :
          calls["inst"][i] = [call |-> "create", ans |-> "ok"]
    /\ remote' = [remote EXCEPT ![c] = "listed"]
    /\ UNCHANGED <<aux, name, id, op, pc, hist, elapsed, pollErr, ret, cause, calls>>

\* The createOpts of the declared instance have been built.
InitBundled ==
    /\ id = [r \in Res |-> ""]
    /\ remote = [r \in Res |-> "absent"]
    /\ op = [r \in Res |-> "none"]
    /\ pc = [r \in Res |-> "idle"]
    /\ hist = [r \in Res |-> <<>>]
    /\ elapsed = [r \in Res |-> 0]
    /\ pollErr = [r \in Res |-> "none"]
    /\ ret = [r \in Res |-> "none"]
    /\ cause = [r \in Res |-> "none"]
    /\ calls = [r \in Res |-> <<>>]
    /\ name = [r \in Res |-> ""]
    /\ cgFile = "part_002"
    /\ decl = BundledDecl
    /\ req = [opts |-> "Instance", body |-> InstanceCreateOpts(BundledDecl)]

NextBundled ==
    \/ Start("inst", "Create")
    \/ Env("inst")
    \/ \E c \in Bundled : EnvBundled(c)
    \/ InstanceCreateRequest("inst")
    \/ WaitForState("inst")
    \/ WaitForStateTimeout("inst")
    \/ InstanceCreateFinish("inst")

\* The Create of the instance with bundled children.
SpecBundled == InitBundled /\ [][NextBundled]_vars

----------------------------------------------------------------------------
(* Properties.                                                             *)

Last(q) == q[Len(q)]

\* The i-th probe of the poll of r reported a pending state.
PendingProbe(r, i) ==
    hist[r][i].err = "nil" /\ hist[r][i].state \in Conf(r).Pending

\* The i-th probe of the poll of r reported a target state.
TargetProbe(r, i) ==
    hist[r][i].err = "nil" /\ hist[r][i].state \in Conf(r).Target

\* The i-th probe of the poll of r reported an error or a state that is
\* neither pending nor target.
FatalProbe(r, i) == ~PendingProbe(r, i) /\ ~TargetProbe(r, i)

\* The i-th probe of the poll of r was followed by another probe.
Followed(r, i) == i < Len(hist[r])

\* The poll of r is over.
PollOver(r) == pollErr[r] # "none"

\* The handler of r issued a get or a listing that showed the object absent.
ObservedAbsent(r) ==
    \E i \in DOMAIN calls[r] :
        /\ calls[r][i].call \in {"get", "list"}
        /\ calls[r][i].ans \in {"404", "missing"}

\* C1 as stated: after every probe that reported a pending state,
\* WaitForState issues another probe before it ends.
C1_PendingAlwaysFollowed ==
    \A r \in Res : \A i \in DOMAIN hist[r] :
        PollOver(r) /\ PendingProbe(r, i) => Followed(r, i)

\* C1 amended: after every probe that reported a pending state (BUILD in the
\* create poll of an Instance), WaitForState issues another probe before it
\* ends, unless the timeout elapses first and the poll ends with the timeout
\* error.
C1_PendingFollowedOrTimeout ==
    \A r \in Res : \A i \in DOMAIN hist[r] :
        /\ PollOver(r) /\ PendingProbe(r, i) =>
              Followed(r, i) \/ pollErr[r] = "timeout"
        /\ PollOver(r) /\ Kind(r) = "Instance" /\ op[r] = "Create"
             /\ hist[r][i] = Result("BUILD", "nil") =>
              Followed(r, i) \/ pollErr[r] = "timeout"

\* An Instance create poll that ended with success after a BUILD probe.
C1_Witness ==
    /\ op["inst"] = "Create" /\ pollErr["inst"] = "nil"
    /\ Len(hist["inst"]) = 2
    /\ hist["inst"][1] = Result("BUILD", "nil")

\* C2: a probe that reported a target state is the last probe of its poll,
\* and the poll ended with success on it (ACTIVE in the create polls,
\* the absent sentinel in the delete polls).
C2_TargetEndsPoll ==
    \A r \in Res : \A i \in DOMAIN hist[r] :
        /\ TargetProbe(r, i) => ~Followed(r, i) /\ pollErr[r] = "nil"
        /\ op[r] = "Create" /\ hist[r][i] = Result("ACTIVE", "nil") =>
              ~Followed(r, i) /\ pollErr[r] = "nil"

\* A ConfigurationGroup create poll that ended on a probe reporting ACTIVE.
C2_Witness ==
    /\ op["cg"] = "Create" /\ pollErr["cg"] = "nil"
    /\ Last(hist["cg"]) = Result("ACTIVE", "nil")

\* C3: a poll whose timeout elapsed while every probe reported a pending
\* state ends with the timeout error, which is none of the errors a probe
\* report causes, and the handler returns an error, never success.
C3_TimeoutIsError ==
    \A r \in Res :
        /\ PollOver(r) /\ elapsed[r] >= PollWindow
             /\ (\A i \in DOMAIN hist[r] : PendingProbe(r, i)) =>
              /\ pollErr[r] = "timeout"
              /\ pc[r] = "done" => ret[r] = "error" /\ cause[r] = "poll"
        /\ pollErr[r] = "timeout" => \A i \in DOMAIN hist[r] : PendingProbe(r, i)
        /\ PollOver(r) /\ (\E i \in DOMAIN hist[r] : FatalProbe(r, i)) =>
              pollErr[r] \in {"probe", "unexpected"}

\* An Instance Create that returned after its poll timed out.
C3_Witness ==
    /\ op["inst"] = "Create" /\ pc["inst"] = "done"
    /\ pollErr["inst"] = "timeout" /\ Len(hist["inst"]) = PollWindow

\* C4: a probe that reported an error or a state outside the pending and the
\* target set is the last probe of its poll, the poll ended with an error on
\* it and the handler returns an error; a probe of an Instance whose status
\* is the error status ends the poll with an error.
C4_FatalEndsPoll ==
    /\ [](\A r \in Res : \A i \in DOMAIN hist[r] :
            FatalProbe(r, i) =>
               /\ ~Followed(r, i)
               /\ pollErr[r] \in {"probe", "unexpected"}
               /\ pc[r] = "done" => ret[r] = "error" /\ cause[r] = "poll")
    /\ [][\A r \in Res :
            /\ Kind(r) = "Instance" /\ pc[r] = "poll" /\ remote[r] = "error"
            /\ Len(hist'[r]) = Len(hist[r]) + 1
            => pc'[r] = "polled" /\ pollErr'[r] = "probe"]_vars

\* An Instance create poll that ended on a probe of an instance in the error
\* status.
C4_Witness ==
    /\ op["inst"] = "Create" /\ pollErr["inst"] = "probe"
    /\ Last(hist["inst"]) = Result("error", "status")

\* C5: when Create returns an error because the create request was rejected
\* or the poll failed or timed out, the persisted identifier is empty.
C5_FailedCreateLeavesIdEmpty ==
    \A r \in Res :
        op[r] = "Create" /\ pc[r] = "done" /\ ret[r] = "error"
          /\ cause[r] \in {"create", "poll"} => id[r] = ""

\* A Database Create that returned the error of its poll.
C5_Witness ==
    /\ op["db"] = "Create" /\ pc["db"] = "done"
    /\ ret["db"] = "error" /\ cause["db"] = "poll"

\* C6: whenever Delete has cleared the persisted identifier, a get or a
\* listing of this Delete has shown the remote object absent.
C6_ClearedOnlyAfterAbsence ==
    \A r \in Res :
        op[r] = "Delete" /\ id[r] = "" => ObservedAbsent(r)

\* C7: a Delete of an Instance or ConfigurationGroup whose delete request is
\* answered not-found returns no error and clears the identifier, its poll
\* having seen the object absent on the first probe.
C7_DeleteOfAbsentSucceeds ==
    \A r \in {"inst", "cg"} :
        op[r] = "Delete" /\ pc[r] = "done"
          /\ calls[r][1] = [call |-> "delete", ans |-> "404"] =>
            /\ ret[r] = "nil" /\ id[r] = ""
            /\ Len(hist[r]) = 1 /\ TargetProbe(r, 1)

\* C8: a Read of an Instance or ConfigurationGroup whose get is answered
\* not-found returns no error and clears the identifier; a Read whose get
\* fails otherwise returns an error and leaves the identifier as it was.
C8_ReadDropsVanished ==
    [][\A r \in {"inst", "cg"} :
         op[r] = "Read" /\ pc[r] = "request" /\ pc'[r] = "done" =>
            /\ Last(calls'[r]).ans = "404" => ret'[r] = "nil" /\ id'[r] = ""
            /\ Last(calls'[r]).ans = "err" => ret'[r] = "error" /\ id'[r] = id[r]
            /\ Last(calls'[r]).ans = "ok" => ret'[r] = "nil" /\ id'[r] = id[r]]_vars

\* A Read of an Instance that found it gone.
C8_Witness ==
    /\ op["inst"] = "Read" /\ pc["inst"] = "done"
    /\ Last(calls["inst"]) = [call |-> "get", ans |-> "404"]
    /\ ret["inst"] = "nil" /\ id["inst"] = ""

\* C9: after a Read of a Database or User whose name is not in the listing
\* of the parent, the persisted identifier is empty and Read returned no
\* error.
C9_ReadDropsUnlistedChild ==
    \A r \in {"db", "usr"} :
        op[r] = "Read" /\ pc[r] = "done"
          /\ Last(calls[r]) = [call |-> "list", ans |-> "missing"] =>
            ret[r] = "nil" /\ id[r] = ""

\* C10: in the create poll of a Database or User, a probe whose listing does
\* not contain the name does not end the poll: another probe follows, or the
\* poll window is exhausted.
C10_UnlistedChildKeepsPolling ==
    \A r \in {"db", "usr"} : \A i \in DOMAIN hist[r] :
        op[r] = "Create" /\ PollOver(r) /\ hist[r][i].err = "childNotFound" =>
            Followed(r, i) \/ pollErr[r] = "timeout"

\* No listing of the handler of r contained the name of r.
NeverListed(r) ==
    \A i \in DOMAIN calls[r] : calls[r][i].ans # "found"

\* C11: a Create of a User or Database whose name is in no listing ends its
\* poll, after at most PollWindow probes, with the child-not-found error of
\* the probe (the listing error, if the listing failed) or with the timeout
\* error; it returns an error, never success, and the identifier stays empty.
C11_UnlistedChildFailsCreate ==
    \A r \in {"db", "usr"} :
        op[r] = "Create" /\ NeverListed(r) =>
            /\ id[r] = ""
            /\ Len(hist[r]) <= PollWindow
            /\ PollOver(r) =>
                 \/ pollErr[r] = "timeout"
                 \/ /\ pollErr[r] = "probe"
                    /\ Last(hist[r]).err =
                         IF Last(calls[r]).ans = "missing"
                         THEN "childNotFound" ELSE "list"
            /\ pc[r] = "done" => ret[r] = "error" /\ cause[r] = "poll"

\* A Create of a User that returned the child-not-found error of its probe.
C11_Witness ==
    /\ op["usr"] = "Create" /\ pc["usr"] = "done" /\ NeverListed("usr")
    /\ ret["usr"] = "error" /\ id["usr"] = ""
    /\ Last(hist["usr"]) = Result("", "childNotFound")

\* C12: when the create request of a Create is rejected, Create returns the
\* error of the request at once: no further create request and no probe
\* follow.
C12_RejectedCreateReturnsAtOnce ==
    \A r \in Res :
        op[r] = "Create" /\ calls[r] # <<>>
          /\ calls[r][1] = [call |-> "create", ans |-> "err"] =>
            /\ Len(calls[r]) = 1
            /\ pc[r] = "done" /\ ret[r] = "error" /\ cause[r] = "create"

BuildBuildActive ==
    <<Result("BUILD", "nil"), Result("BUILD", "nil"), Result("ACTIVE", "nil")>>

CgDeleteFirstProbeNotFound ==
    /\ op["cg"] = "Delete" /\ Len(calls["cg"]) >= 2
    /\ calls["cg"][1] = [call |-> "delete", ans |-> "ok"]
    /\ calls["cg"][2] = [call |-> "get", ans |-> "404"]

\* The delete poll of the ConfigurationGroup ended with success on its first
\* probe, no call followed it, and Delete clears the identifier.
CgDeleteEndsAtOnce ==
    /\ Len(hist["cg"]) = 1 /\ Len(calls["cg"]) = 2
    /\ pollErr["cg"] = "nil"
    /\ pc["cg"] = "done" => ret["cg"] = "nil" /\ id["cg"] = ""

\* C14 as stated: after an accepted delete request of a ConfigurationGroup
\* and a first probe answered not-found, the poll succeeds at once with the
\* state "deleted", no probe follows and the identifier is cleared.
C14_DeletedLowerCase ==
    CgDeleteFirstProbeNotFound =>
        CgDeleteEndsAtOnce /\ hist["cg"][1].state = "deleted"

\* C14 amended: ... the poll succeeds at once with the absent state of the
\* probe, which is "DELETED" in part_002 and "deleted" in
\* resource_openstack_db_config_group.go; no probe follows and the
\* identifier is cleared.
C14_DeletePollEndsOnNotFound ==
    CgDeleteFirstProbeNotFound =>
        /\ CgDeleteEndsAtOnce
        /\ hist["cg"][1].state =
             IF cgFile = "part_002" THEN "DELETED" ELSE "deleted"

\* A Delete of the ConfigurationGroup that returned after one probe.
C14_Witness ==
    /\ CgDeleteFirstProbeNotFound /\ pc["cg"] = "done"
    /\ cgFile = "part_002" /\ id["cg"] = ""

\* The declared value v is an integer numeral: an optional sign and digits.
IsIntegerNumeral(v) ==
    LET body == IF v # <<>> /\ v[1] \in {"+", "-"} THEN Tail(v) ELSE v
    IN  body # <<>> /\ \A i \in DOMAIN body : body[i] \in Digit

\* The integer of the numeral v: its sign and its digits without leading
\* zeros.
NumeralValue(v) ==
    LET neg  == v[1] = "-"
        body == IF v[1] \in {"+", "-"} THEN Tail(v) ELSE v
        m    == StripZeros(body)
    IN  IntValue(neg /\ m # <<"0">>, m)

\* Block i is the last declaration of its name.
LastDeclaration(blocks, i) ==
    \A j \in DOMAIN blocks : j > i => blocks[j].name # blocks[i].name

\* C15: in the create request of a ConfigurationGroup, a declared value that
\* is an integer numeral is transmitted as that integer, every other declared
\* value as the declared string.
C15_IntegerValuesCoerced ==
    decl.kind = "ConfigurationGroup" /\ req.opts = decl.kind =>
        \A i \in DOMAIN decl.configuration :
            LET b == decl.configuration[i]
            IN  LastDeclaration(decl.configuration, i) =>
                  /\ b.name \in DOMAIN req.body.Values
                  /\ req.body.Values[b.name] =
                       IF IsIntegerNumeral(b.value)
                       THEN NumeralValue(b.value) ELSE StringValue(b.value)

\* C16: the create request of an Instance has one network, database and user
\* entry per declared block, in the order of the declaration.
C16_EveryBlockTransmitted ==
    decl.kind = "Instance" /\ req.opts = decl.kind =>
        /\ Len(req.body.Networks) = Len(decl.network)
        /\ Len(req.body.Databases) = Len(decl.database)
        /\ Len(req.body.Users) = Len(decl.user)
        /\ \A i \in DOMAIN req.body.Networks : req.body.Networks[i].UUID = decl.network[i].uuid
        /\ \A i \in DOMAIN req.body.Databases : req.body.Databases[i].Name = decl.database[i].name
        /\ \A i \in DOMAIN req.body.Users : req.body.Users[i].Name = decl.user[i].name

\* C17: when Create of an Instance has returned without error, the persisted
\* identifier is not empty, the get with that identifier has returned the
\* instance, whose ID is the persisted identifier, and the tracked name is the
\* declared name.
C17_CreatedInstanceExists ==
    op["inst"] = "Create" /\ pc["inst"] = "done" /\ ret["inst"] = "nil" =>
        /\ id["inst"] # ""
        /\ Last(calls["inst"]) = [call |-> "get", ans |-> "ok"]
        /\ id["inst"] = RemoteId("inst")
        /\ name["inst"] = DeclaredName("inst")

\* A step in which r reads: the Read handler, or the Read at the end of a
\* Create whose poll succeeded.
ReadStep(r) ==
    /\ pc'[r] = "done" /\ calls'[r] # calls[r]
    /\ \/ op[r] = "Read" /\ pc[r] = "request"
       \/ op[r] = "Create" /\ pc[r] = "polled"

\* A step in which the poll of r probes.
ProbeStep(r) == pc[r] = "poll" /\ Len(hist'[r]) = Len(hist[r]) + 1

\* What the Read handler of r makes of the identifier curId and answer ans.
ReadOutcome(r, curId, ans) ==
    CASE Kind(r) = "Instance"           -> resourceDatabaseInstanceRead(curId, ans)
      [] Kind(r) = "ConfigurationGroup" -> resourceDbConfigGroupRead(curId, ans)
      [] Kind(r) = "Database"           -> resourceDatabaseRead(curId, ans)
      [] OTHER                          -> resourceDbUserRead(curId, ans)

\* C18: a Read or a probe of any resource issues exactly one call, a get or a
\* listing, and leaves every remote object as it was; and the tracked state a
\* Read leaves is the one a second Read with the same answer leaves again.
C18_ReadAndProbeOnlyObserve ==
    [][\A r \in Res :
         ReadStep(r) \/ ProbeStep(r) =>
           /\ remote' = remote
           /\ Len(calls'[r]) = Len(calls[r]) + 1
           /\ SubSeq(calls'[r], 1, Len(calls[r])) = calls[r]
           /\ Last(calls'[r]).call \in {"get", "list"}
           /\ ReadStep(r) =>
                LET a == Last(calls'[r]).ans
                    again == ReadOutcome(r, id'[r], a)
                IN  /\ again.id = id'[r]
                    /\ again.ret = ret'[r]
                    /\ a \in {"ok", "found"} => name'[r] = RemoteName(r)
                    /\ a \notin {"ok", "found"} => name'[r] = name[r]]_vars

\* A Read of the Database that found it listed and kept its identifier.
C18_Witness ==
    /\ op["db"] = "Read" /\ pc["db"] = "done"
    /\ calls["db"] = <<[call |-> "list", ans |-> "found"]>>
    /\ id["db"] = "I1" /\ name["db"] = "app" /\ remote["db"] = "listed"

\* C19: the pending set and the target set of the poll of every Create and
\* Delete are disjoint.
C19_PendingTargetDisjoint ==
    \A r \in Res :
        pc[r] \in {"poll", "polled"} =>
            Conf(r).Pending \cap Conf(r).Target = {}

\* The delete poll of the Instance is under way and has probed SHUTOFF, a
\* pending state of it.
C19_Witness ==
    /\ op["inst"] = "Delete" /\ pc["inst"] = "poll"
    /\ hist["inst"] # <<>> /\ Last(hist["inst"]) = Result("SHUTOFF", "nil")

\* What belongs to the reconciliation of r: its tracked state, its handler's
\* position and results, and its remote object.
Own(r) ==
    <<id[r], remote[r], op[r], pc[r], hist[r], elapsed[r], pollErr[r],
      ret[r], cause[r], calls[r], name[r]>>

\* The poll of the Create of r ended on a probe that reported a target state.
PollSucceeded(r) ==
    hist[r] # <<>> /\ TargetProbe(r, Len(hist[r])) /\ pollErr[r] = "nil"

\* C20: with the handlers of two databases of one instance interleaved, every
\* step changes what belongs to one of them only, every probe of a database
\* is answered from the listing of its own name, and the result and the
\* identifier of a Create are fixed by its own calls and probe results, as
\* they are when the handlers run one after the other.
C20_InterleavingIndependent ==
    /\ [](\A r \in ConcRes :
            op[r] = "Create" /\ pc[r] = "done" =>
              /\ id[r] = IF PollSucceeded(r) THEN RemoteId(r) ELSE ""
              /\ ret[r] = IF PollSucceeded(r) /\ Last(calls[r]).ans # "err"
                          THEN "nil" ELSE "error")
    /\ [][\A r \in ConcRes :
            /\ Own(r)' # Own(r) =>
                 \A q \in ConcRes \ {r} : Own(q)' = Own(q)
            /\ ProbeStep(r) =>
                 /\ Last(calls'[r]).ans \in ListAnswers(remote[r])
                 /\ Last(hist'[r]) =
                      DatabaseStateRefreshFunc(remote[r], Last(calls'[r]).ans)]_vars

\* The Create of "a" has succeeded while the Create of "b", started before it
\* ended, has failed on a probe that did not find "b".
C20_Witness ==
    /\ op["a"] = "Create" /\ pc["a"] = "done" /\ ret["a"] = "nil" /\ id["a"] = "I1"
    /\ op["b"] = "Create" /\ pc["b"] = "done" /\ ret["b"] = "error" /\ id["b"] = ""
    /\ remote["a"] = "listed" /\ remote["b"] = "absent"
    /\ Last(hist["b"]).err = "childNotFound"

OnlyObservesAfterFirst(r) ==
    \A i \in DOMAIN calls[r] : i > 1 => calls[r][i].call \in {"get", "list"}

\* C22: a Create issues its create request first, then its probes, and sets
\* the identifier and reads only after a probe reported a target state; a
\* Delete of an Instance or ConfigurationGroup issues no probe before its
\* delete request was accepted and clears the identifier only after its poll
\* succeeded.
C22_StepsInOrder ==
    /\ \A r \in Res :
         op[r] = "Create" =>
           /\ calls[r] # <<>> => calls[r][1].call = "create"
           /\ OnlyObservesAfterFirst(r)
           /\ Len(calls[r]) >= Len(hist[r])
           /\ hist[r] # <<>> => Len(calls[r]) \in {Len(hist[r]) + 1, Len(hist[r]) + 2}
           /\ id[r] # "" => PollSucceeded(r)
           /\ Len(calls[r]) = Len(hist[r]) + 2 => PollSucceeded(r) /\ pc[r] = "done"
    /\ \A r \in {"inst", "cg"} :
         op[r] = "Delete" =>
           /\ calls[r] # <<>> => calls[r][1].call = "delete"
           /\ OnlyObservesAfterFirst(r)
           /\ hist[r] # <<>> => calls[r][1] = [call |-> "delete", ans |-> "ok"]
           /\ Len(calls[r]) <= Len(hist[r]) + 1
           /\ id[r] = "" => PollSucceeded(r)

\* A Create of the ConfigurationGroup has returned after its create request,
\* one probe and the Read.
C22_Witness ==
    /\ op["cg"] = "Create" /\ pc["cg"] = "done" /\ id["cg"] = "C1"
    /\ Len(calls["cg"]) = 3 /\ Len(hist["cg"]) = 1

\* C23: a Create of an Instance or ConfigurationGroup issues no delete
\* request, and when its poll has failed or timed out it returns with the
\* identifier empty and the remote object left as it is.
C23_FailedCreateLeavesRemote ==
    /\ [](\A r \in {"inst", "cg"} :
            op[r] = "Create" =>
              \A i \in DOMAIN calls[r] : calls[r][i].call # "delete")
    /\ [][\A r \in {"inst", "cg"} :
            /\ op[r] = "Create" /\ pc[r] = "polled" /\ PollFailed(pollErr[r])
            /\ pc'[r] = "done"
            => /\ remote' = remote
               /\ calls' = calls
               /\ id'[r] = "" /\ ret'[r] = "error"]_vars

\* A Create of the Instance has returned the error of a poll that timed out;
\* the instance is still in BUILD on the remote side and no identifier is
\* stored.
C23_Witness ==
    /\ op["inst"] = "Create" /\ pc["inst"] = "done" /\ ret["inst"] = "error"
    /\ calls["inst"][1] = [call |-> "create", ans |-> "ok"]
    /\ pollErr["inst"] = "timeout"
    /\ remote["inst"] = "BUILD" /\ id["inst"] = ""

\* C24: the Create of an Instance declared with a database and a user block
\* issues its create request and then gets of the instance only, never a
\* listing of databases or users, and its result is fixed by those gets,
\* whether the bundled children exist on the remote side or not.
C24_WaitsForParentOnly ==
    op["inst"] = "Create" =>
        /\ \A i \in DOMAIN calls["inst"] :
              calls["inst"][i].call = IF i = 1 THEN "create" ELSE "get"
        /\ \A i \in DOMAIN hist["inst"] :
              hist["inst"][i].err # "nil"
                \/ hist["inst"][i].state \in InstanceStatus \cup {"deleted"}
        /\ pc["inst"] = "done" =>
              ret["inst"] = IF PollSucceeded("inst") /\ Last(calls["inst"]).ans # "err"
                            THEN "nil" ELSE "error"

\* The Create of the Instance has succeeded and stored I1, and neither the
\* database nor the user that its create request carried exists.
C24_Witness ==
    /\ op["inst"] = "Create" /\ pc["inst"] = "done"
    /\ ret["inst"] = "nil" /\ id["inst"] = "I1"
    /\ Len(req.body.Databases) = 1 /\ Len(req.body.Users) = 1
    /\ remote["db"] = "absent" /\ remote["usr"] = "absent"

\* C25: two different managed objects that are tracked never have the same
\* persisted identifier.
C25_IdentifiersDistinct ==
    \A r \in Res : \A q \in Res \ {r} :
        id[r] # "" /\ id[q] # "" => id[r] # id[q]

\* C26: when a Create of an Instance or ConfigurationGroup has returned
\* without error, the persisted identifier is not empty, also when the get
\* of the Read at its end was answered not-found.
C26_SuccessfulCreateHasId ==
    \A r \in {"inst", "cg"} :
        op[r] = "Create" /\ pc[r] = "done" /\ ret[r] = "nil" => id[r] # ""

\* The state the probe of r reports when its get is answered not-found.
AbsentSentinel(r) ==
    IF Kind(r) = "ConfigurationGroup" /\ cgFile = "part_002"
    THEN "DELETED" ELSE "deleted"

\* C27: when a probe of the create poll of an Instance or ConfigurationGroup
\* is answered not-found, the probe reports the absent state without error;
\* that state is neither pending nor target, the poll ends on this probe with
\* an error, no call follows, Create returns an error and the identifier
\* stays empty.
C27_NotFoundFailsCreate ==
    \A r \in {"inst", "cg"} :
        \A i \in DOMAIN hist[r] :
            op[r] = "Create" /\ calls[r][i + 1] = [call |-> "get", ans |-> "404"] =>
                /\ hist[r][i] = Result(AbsentSentinel(r), "nil")
                /\ AbsentSentinel(r) \notin Conf(r).Pending \cup Conf(r).Target
                /\ i = Len(hist[r]) /\ Len(calls[r]) = i + 1
                /\ pollErr[r] = "unexpected"
                /\ pc[r] \in {"polled", "done"}
                /\ pc[r] = "done" => ret[r] = "error" /\ cause[r] = "poll"
                /\ id[r] = ""

\* A Create of the Instance has returned an error after a BUILD probe and a
\* probe that was answered not-found.
C27_Witness ==
    /\ op["inst"] = "Create" /\ pc["inst"] = "done" /\ ret["inst"] = "error"
    /\ Len(hist["inst"]) = 2
    /\ calls["inst"][3] = [call |-> "get", ans |-> "404"]
    /\ id["inst"] = ""

\* C28: in the Delete of an Instance or ConfigurationGroup, the state the
\* probe reports on a not-found answer is in the target set of the delete
\* poll, and a probe that is answered not-found ends the poll with success.
C28_AbsentStateIsDeleteTarget ==
    \A r \in {"inst", "cg"} :
        op[r] = "Delete" =>
            /\ Refresh(r, "404").err = "nil"
            /\ Refresh(r, "404").state \in Conf(r).Target
            /\ \A i \in DOMAIN hist[r] :
                  calls[r][i + 1].ans = "404" =>
                      /\ hist[r][i] = Refresh(r, "404")
                      /\ i = Len(hist[r]) /\ pollErr[r] = "nil"

\* The delete poll of the ConfigurationGroup of part_002 has ended with
\* success on a probe that was answered not-found, after a probe that found
\* the group.
C28_Witness ==
    /\ op["cg"] = "Delete" /\ cgFile = "part_002"
    /\ Len(hist["cg"]) = 2 /\ calls["cg"][3].ans = "404"
    /\ hist["cg"][2] = Result("DELETED", "nil")
    /\ pollErr["cg"] = "nil"

\* The probes of the ConfigurationGroup report ACTIVE when the get succeeds,
\* the absent state when it is answered not-found, and otherwise the error
\* of the get; a create poll ends on its first probe, with success if the
\* get succeeded, and never sees BUILD.
CgProbeStates ==
    /\ \A i \in DOMAIN hist["cg"] :
          /\ calls["cg"][i + 1].ans = "ok" <=> hist["cg"][i] = Result("ACTIVE", "nil")
          /\ calls["cg"][i + 1].ans = "404" <=>
                hist["cg"][i] = Result(AbsentSentinel("cg"), "nil")
          /\ hist["cg"][i].state # "BUILD"
    /\ op["cg"] = "Create" =>
          /\ Len(hist["cg"]) <= 1
          /\ hist["cg"] # <<>> => PollOver("cg")
          /\ hist["cg"] # <<>> /\ calls["cg"][2].ans = "ok" => pollErr["cg"] = "nil"

\* C29 as stated: besides, a delete poll of the ConfigurationGroup goes on
\* after a probe exactly if the get of that probe succeeded.
C29_CgPollsWhileGetSucceeds ==
    /\ CgProbeStates
    /\ op["cg"] = "Delete" /\ PollOver("cg") =>
          \A i \in DOMAIN hist["cg"] :
              Followed("cg", i) <=> calls["cg"][i + 1].ans = "ok"

\* C29 amended: besides, a delete poll of the ConfigurationGroup goes on
\* after every probe whose get succeeded unless the timeout elapses, and
\* ends on the first probe whose get did not succeed.
C29_CgPollsWhileGetSucceedsOrTimeout ==
    /\ CgProbeStates
    /\ op["cg"] = "Delete" /\ PollOver("cg") =>
          \A i \in DOMAIN hist["cg"] :
              /\ calls["cg"][i + 1].ans = "ok" =>
                    Followed("cg", i) \/ pollErr["cg"] = "timeout"
              /\ calls["cg"][i + 1].ans # "ok" => ~Followed("cg", i)
    /\ op["cg"] = "Delete" /\ ~PollOver("cg") =>
          \A i \in DOMAIN hist["cg"] : calls["cg"][i + 1].ans = "ok"

\* A delete poll of the ConfigurationGroup has ended at the timeout after
\* PollWindow probes whose get succeeded.
C29_Witness ==
    /\ op["cg"] = "Delete" /\ pollErr["cg"] = "timeout"
    /\ Len(hist["cg"]) = PollWindow
    /\ \A i \in DOMAIN hist["cg"] : calls["cg"][i + 1].ans = "ok"

\* C30: a Delete of a Database or User whose listing was extracted issues
\* one delete request, also when the name is not listed, and no probe or
\* other call after it; it clears the identifier and returns no error,
\* whatever the answer to the delete request.
C30_ChildDeleteAlwaysSucceeds ==
    \A r \in {"db", "usr"} :
        op[r] = "Delete" =>
            /\ hist[r] = <<>>
            /\ pc[r] = "listed" =>
                  /\ Len(calls[r]) = 1
                  /\ calls[r][1].call = "list" /\ calls[r][1].ans # "err"
            /\ pc[r] = "done" /\ calls[r][1].ans # "err" =>
                  /\ Len(calls[r]) = 2
                  /\ calls[r][2].call = "delete"
                  /\ id[r] = "" /\ ret[r] = "nil"

\* A Delete of the Database has returned without error and cleared the
\* identifier; the name was not listed and the delete request failed.
C30_Witness ==
    /\ op["db"] = "Delete" /\ pc["db"] = "done"
    /\ calls["db"][1] = [call |-> "list", ans |-> "missing"]
    /\ calls["db"][2].call = "delete" /\ calls["db"][2].ans # "ok"
    /\ ret["db"] = "nil" /\ id["db"] = ""

\* The names the configuration blocks declare.
DeclaredNames(blocks) == {blocks[i].name : i \in DOMAIN blocks}

\* C31: the values of the create request of a ConfigurationGroup have one
\* entry for every declared name and no other, and the entry of a name
\* carries the value, as a string or coerced, of the last block that declares
\* the name.
C31_OneEntryPerNameLastWins ==
    decl.kind = "ConfigurationGroup" /\ req.opts = decl.kind =>
        /\ DOMAIN req.body.Values = DeclaredNames(decl.configuration)
        /\ \A i \in DOMAIN decl.configuration :
              LET b == decl.configuration[i]
              IN  LastDeclaration(decl.configuration, i) =>
                    /\ b.name \in DOMAIN req.body.Values
                    /\ req.body.Values[b.name] \in
                         {Coerce(b.value), StringValue(b.value)}

====
